---- MODULE Spec2Model ----
(***************************************************************************)
(* Event authorisation of synapse/api/auth.py (class Auth).                *)
(*                                                                         *)
(* The functions of Auth are pure functions of the event and of the room   *)
(* state attached to it (event.old_state_events).  Each specification      *)
(* below draws an event from a bounded family and applies one of the       *)
(* functions to it; the outcome (value returned or exception raised) is    *)
(* recorded in the variable result.                                        *)
(*                                                                         *)
(* The code is Python 2: None compares below every integer, 0 and None     *)
(* are both false in a condition, and dict.keys() returns a list.          *)
(***************************************************************************)
EXTENDS Integers, FiniteSets, Sequences, TLC

VARIABLES event, call, result

vars == <<event, call, result>>

---------------------------------------------------------------------------
(* Values *)

\* Python's None, for an absent dict entry or an unset level.
None == -1

\* A users-map value that int() rejects (e.g. "admin").
BadLevel == -2

\* The number of levels modelled above DefaultLevel - 1.
LevelSpan == 1

\* content.get("ban" / "kick" / "redact", 50)
DefaultLevel == 50

\* kick_level = 50 when the kick level is false
DefaultKickLevel == 50

\* ban_level = 50 when the ban level is false
DefaultBanLevel == 50

\* content.get("state_default", 50)
DefaultStateLevel == 50

\* content.get("events_default", 0) and content.get("users_default", 0)
DefaultEventsLevel == 0

DefaultUsersLevel == 0

\* Power levels: 0 (false in a Python condition) and the levels around the
\* default threshold.
Levels == {0} \cup ((DefaultLevel - 1) .. (DefaultLevel - 1 + LevelSpan))

\* A level, or None when the key is absent.
OptLevels == Levels \cup {None}

Alice == "@alice:x"

Bob == "@bob:x"

\* A users-map key that hs.parse_userid rejects.
BadUserId == "carol"

Users == {Alice, Bob}

UserKeys == Users \cup {BadUserId}

RoomCreateEvent_TYPE == "m.room.create"

RoomMemberEvent_TYPE == "m.room.member"

RoomPowerLevelsEvent_TYPE == "m.room.power_levels"

RoomRedactionEvent_TYPE == "m.room.redaction"

RoomJoinRulesEvent_TYPE == "m.room.join_rules"

RoomMessageEvent_TYPE == "m.room.message"

EventTypes == {RoomCreateEvent_TYPE, RoomMemberEvent_TYPE,
               RoomPowerLevelsEvent_TYPE, RoomRedactionEvent_TYPE,
               RoomJoinRulesEvent_TYPE, RoomMessageEvent_TYPE}

\* State events carry a state_key attribute; the others do not.
StateEventTypes == {RoomCreateEvent_TYPE, RoomMemberEvent_TYPE,
                    RoomPowerLevelsEvent_TYPE, RoomJoinRulesEvent_TYPE}

Membership_INVITE == "invite"

Membership_JOIN == "join"

Membership_LEAVE == "leave"

Membership_BAN == "ban"

\* A membership value the code does not know.
Membership_OTHER == "knock"

\* event.content of an event that is no membership event has no membership.
NoMembership == "-"

\* No membership event of the user in the room state.
NoMember == "none"

Memberships == {Membership_INVITE, Membership_JOIN, Membership_LEAVE,
                Membership_BAN}

JoinRules_PUBLIC == "public"

JoinRules_INVITE == "invite"

JoinRules_PRIVATE == "private"

\* The room state has no join_rules event / its content has no join_rule.
NoJoinRulesEvent == "no_event"

NoJoinRuleField == "no_field"

JoinRuleStates == {NoJoinRulesEvent, NoJoinRuleField, JoinRules_PUBLIC,
                   JoinRules_INVITE, JoinRules_PRIVATE}

---------------------------------------------------------------------------
(* Event content and room state *)

\* event.content: "membership" of a membership event and the keys of a
\* power_levels content.  has_users / has_events tell whether the content
\* has a "users" / "events" dict at all; a key absent from a dict is None.
EmptyContent ==
    [membership |-> NoMembership,
     has_users |-> FALSE, users |-> [k \in UserKeys |-> None],
     users_default |-> None,
     has_events |-> FALSE, events |-> [t \in EventTypes |-> None],
     events_default |-> None, state_default |-> None,
     ban |-> None, kick |-> None, redact |-> None]

\* A dict over keys with the given entries, None elsewhere.
UsersDict(alice, bob, bad) ==
    [k \in UserKeys |-> IF k = Alice THEN alice
                        ELSE IF k = Bob THEN bob ELSE bad]

EventsDict(type, level) ==
    [t \in EventTypes |-> IF t = type THEN level ELSE None]

\* event.old_state_events: None (known = FALSE), or the state of the room
\* before the event: the membership of each user, the join rule, and the
\* content of the power_levels event when there is one.
UnknownState ==
    [known |-> FALSE, member |-> [u \in Users |-> NoMember],
     join_rules |-> NoJoinRulesEvent,
     has_power_levels |-> FALSE, power_levels |-> EmptyContent]

EmptyState == [UnknownState EXCEPT !.known = TRUE]

RoomState(member, join_rules, has_pl, pl) ==
    [known |-> TRUE, member |-> member, join_rules |-> join_rules,
     has_power_levels |-> has_pl,
     power_levels |-> IF has_pl THEN pl ELSE EmptyContent]

\* An event.  has_room_id: hasattr(event, "room_id"); outlier:
\* hasattr(event, "outlier") and event.outlier is True; has_state_key:
\* hasattr(event, "state_key").
Event(has_room_id, outlier, type, user_id, state_key, content, state) ==
    [has_room_id |-> has_room_id, outlier |-> outlier, type |-> type,
     user_id |-> user_id, has_state_key |-> type \in StateEventTypes,
     state_key |-> state_key, content |-> content,
     old_state_events |-> state]

---------------------------------------------------------------------------
(* Outcomes *)

\* What a call did: returned a value ("True", "False", "None" or a level)
\* or raised exc with the given status code.
Returned(v) == [kind |-> "return", value |-> v, level |-> None,
                exc |-> "-", code |-> 0]

ReturnedLevel(l) == [kind |-> "return", value |-> "level", level |-> l,
                     exc |-> "-", code |-> 0]

Raised(exc, code) == [kind |-> "raise", value |-> "-", level |-> None,
                      exc |-> exc, code |-> code]

AuthError(code) == Raised("AuthError", code)

SynapseError(code) == Raised("SynapseError", code)

\* None has no attribute keys.
AttributeError == Raised("AttributeError", 0)

NoResult == [kind |-> "-", value |-> "-", level |-> None,
             exc |-> "-", code |-> 0]

NoCall == [op |-> "-", raises |-> FALSE, user_id |-> "-"]

---------------------------------------------------------------------------
(* Python 2 semantics *)

\* dict.get(key, default)
Get(v, default) == IF v = None THEN default ELSE v

\* The truth of an int or None in a condition.
Truthy(v) == v # None /\ v # 0

\* a < b over ints and None: None sorts below every int.
PyLt(a, b) ==
    IF a = None THEN b # None
    ELSE IF b = None THEN FALSE
    ELSE a < b

PyGt(a, b) == PyLt(b, a)

\* int(v) of an integer level is that level.
ToInt(v) == v

\* hs.parse_userid(k) succeeds
ParsesAsUserId(k) == k \in Users

\* int(v) succeeds
ParsesAsInt(v) == v # BadLevel /\ v # None

---------------------------------------------------------------------------
(* PowerLevelResolver *)

\* content.get("users", {}).get(user_id)
UsersEntry(content, user_id) ==
    IF content.has_users THEN content.users[user_id] ELSE None

\* content.get("events", {}).get(type)
EventsEntry(content, type) ==
    IF content.has_events THEN content.events[type] ELSE None

\* Auth._get_power_level_from_event_state
get_power_level_from_event_state(e, user_id) ==
    LET st == e.old_state_events
        level == UsersEntry(st.power_levels, user_id)
    IN  IF st.has_power_levels
        THEN IF ~Truthy(level)
             THEN Get(st.power_levels.users_default, DefaultUsersLevel)
             ELSE level
        ELSE None

\* Auth._get_ops_level_from_event_state: <<ban, kick, redact>>
get_ops_level_from_event_state(e) ==
    LET st == e.old_state_events
    IN  IF st.has_power_levels
        THEN <<Get(st.power_levels.ban, DefaultLevel),
               Get(st.power_levels.kick, DefaultLevel),
               Get(st.power_levels.redact, DefaultLevel)>>
        ELSE <<None, None, None>>

---------------------------------------------------------------------------
(* SendGate *)

\* The send_level computed by Auth._can_send_event.
send_level_of(e) ==
    LET st == e.old_state_events
        by_type == EventsEntry(st.power_levels, e.type)
        send_level ==
            IF st.has_power_levels
            THEN IF ~Truthy(by_type)
                 THEN IF e.has_state_key
                      THEN Get(st.power_levels.state_default,
                               DefaultStateLevel)
                      ELSE Get(st.power_levels.events_default,
                               DefaultEventsLevel)
                 ELSE by_type
            ELSE None
    IN  IF Truthy(send_level) THEN ToInt(send_level) ELSE 0

\* Auth._can_send_event
can_send_event(e) ==
    LET level == get_power_level_from_event_state(e, e.user_id)
        user_level == IF Truthy(level) THEN ToInt(level) ELSE 0
    IN  IF user_level < send_level_of(e)
        THEN AuthError(403)
        ELSE Returned("True")

---------------------------------------------------------------------------
(* RedactionGate *)

\* Auth._check_redaction
check_redaction(e) ==
    LET user_level == get_power_level_from_event_state(e, e.user_id)
        redact_level == get_ops_level_from_event_state(e)[3]
    IN  IF PyLt(user_level, redact_level)
        THEN AuthError(403)
        ELSE Returned("None")

---------------------------------------------------------------------------
(* MembershipGate *)

\* is_membership_change_allowed without the test that a join is the
\* sender's own.
is_membership_change_allowed_any_join(e) ==
    LET st == e.old_state_events
        target_user_id == e.state_key
        caller_in_room == st.member[e.user_id] = Membership_JOIN
        target_in_room == st.member[target_user_id] = Membership_JOIN
        membership == e.content.membership
        join_rule ==
            IF st.join_rules = NoJoinRulesEvent
               \/ st.join_rules = NoJoinRuleField
            THEN JoinRules_INVITE
            ELSE st.join_rules
        user_level == get_power_level_from_event_state(e, e.user_id)
        ops == get_ops_level_from_event_state(e)
        ban_level == IF Truthy(ops[1]) THEN ToInt(ops[1])
                     ELSE DefaultBanLevel
        kick_level == IF Truthy(ops[2]) THEN ToInt(ops[2])
                      ELSE DefaultKickLevel
    IN  IF membership = Membership_INVITE
        THEN IF ~caller_in_room THEN AuthError(403)
             ELSE IF target_in_room THEN AuthError(403)
             ELSE Returned("True")
        ELSE IF membership = Membership_JOIN
        THEN IF join_rule = JoinRules_PUBLIC THEN Returned("True")
             ELSE IF join_rule = JoinRules_INVITE
             THEN IF ~caller_in_room THEN AuthError(403)
                  ELSE Returned("True")
             ELSE AuthError(403)
        ELSE IF membership = Membership_LEAVE
        THEN IF ~caller_in_room THEN AuthError(403)
             ELSE IF target_user_id # e.user_id
                     /\ PyLt(user_level, kick_level)
             THEN AuthError(403)
             ELSE Returned("True")
        ELSE IF membership = Membership_BAN
        THEN IF PyLt(user_level, ban_level) THEN AuthError(403)
             ELSE Returned("True")
        ELSE AuthError(500)

\* Auth.is_membership_change_allowed
is_membership_change_allowed(e) ==
    LET st == e.old_state_events
        target_user_id == e.state_key
        caller_in_room == st.member[e.user_id] = Membership_JOIN
        target_in_room == st.member[target_user_id] = Membership_JOIN
        membership == e.content.membership
        join_rule ==
            IF st.join_rules = NoJoinRulesEvent
               \/ st.join_rules = NoJoinRuleField
            THEN JoinRules_INVITE
            ELSE st.join_rules
        user_level == get_power_level_from_event_state(e, e.user_id)
        ops == get_ops_level_from_event_state(e)
        ban_level == IF Truthy(ops[1]) THEN ToInt(ops[1])
                     ELSE DefaultBanLevel
        kick_level == IF Truthy(ops[2]) THEN ToInt(ops[2])
                      ELSE DefaultKickLevel
    IN  IF membership = Membership_INVITE
        THEN IF ~caller_in_room THEN AuthError(403)
             ELSE IF target_in_room THEN AuthError(403)
             ELSE Returned("True")
        ELSE IF membership = Membership_JOIN
        THEN IF e.user_id # target_user_id THEN AuthError(403)
             ELSE IF join_rule = JoinRules_PUBLIC THEN Returned("True")
             ELSE IF join_rule = JoinRules_INVITE
             THEN IF ~caller_in_room THEN AuthError(403)
                  ELSE Returned("True")
             ELSE AuthError(403)
        ELSE IF membership = Membership_LEAVE
        THEN IF ~caller_in_room THEN AuthError(403)
             ELSE IF target_user_id # e.user_id
                     /\ PyLt(user_level, kick_level)
             THEN AuthError(403)
             ELSE Returned("True")
        ELSE IF membership = Membership_BAN
        THEN IF PyLt(user_level, ban_level) THEN AuthError(403)
             ELSE Returned("True")
        ELSE AuthError(500)

---------------------------------------------------------------------------
(* PowerLevelChangeValidator *)

\* levels_to_check with state_default among the scalar keys.
ScalarLevels_with_state_default ==
    {"users_default", "events_default", "state_default", "ban", "redact",
     "kick"}

\* The scalar keys of levels_to_check.
ScalarLevels == {"users_default", "events_default", "ban", "redact",
                 "kick"}

\* LevelRefused without the "continue" of an unchanged level.
LevelRefused_unchanged_checked(old_level, new_level, user_level) ==
    PyGt(old_level, user_level) \/ PyGt(new_level, user_level)

\* One pass of the loop over levels_to_check: the entry is refused when
\* its old and new levels are not both present and equal and one of them
\* is above user_level.
LevelRefused(old_level, new_level, user_level) ==
    /\ ~(new_level # None /\ old_level # None /\ new_level = old_level)
    /\ (PyGt(old_level, user_level) \/ PyGt(new_level, user_level))

\* Auth._check_power_levels
check_power_levels(e) ==
    LET st == e.old_state_events
        new_state == e.content
        old_state == st.power_levels
        has_current_state ==
            /\ st.has_power_levels
            /\ e.type = RoomPowerLevelsEvent_TYPE
            /\ e.state_key = ""
        user_level == get_power_level_from_event_state(e, e.user_id)
        user_keys == {k \in UserKeys :
                        \/ old_state.users[k] # None
                        \/ UsersEntry(new_state, k) # None}
        event_keys == {t \in EventTypes :
                         \/ old_state.events[t] # None
                         \/ new_state.events[t] # None}
    IN  IF \E k \in UserKeys :
              /\ UsersEntry(new_state, k) # None
              /\ (~ParsesAsUserId(k)
                  \/ ~ParsesAsInt(UsersEntry(new_state, k)))
        THEN SynapseError(400)
        ELSE IF ~has_current_state THEN Returned("None")
        ELSE IF ~old_state.has_users THEN AttributeError
        ELSE IF ~old_state.has_events \/ ~new_state.has_events
        THEN AttributeError
        ELSE IF \/ \E f \in ScalarLevels :
                      LevelRefused(ToInt(old_state[f]), ToInt(new_state[f]),
                                   user_level)
                \/ \E k \in user_keys :
                      LevelRefused(ToInt(UsersEntry(old_state, k)),
                                   ToInt(UsersEntry(new_state, k)),
                                   user_level)
                \/ \E t \in event_keys :
                      LevelRefused(ToInt(EventsEntry(old_state, t)),
                                   ToInt(EventsEntry(new_state, t)),
                                   user_level)
        THEN AuthError(403)
        ELSE Returned("None")

---------------------------------------------------------------------------
(* AuthDecision *)

\* check_body with the outlier test left out.
check_body_outlier_checked(e) ==
    IF e.has_room_id
    THEN IF ~e.old_state_events.known THEN Returned("True")
         ELSE IF e.type = RoomCreateEvent_TYPE THEN Returned("True")
         ELSE IF can_send_event(e).kind = "raise" THEN can_send_event(e)
         ELSE IF e.type = RoomMemberEvent_TYPE
         THEN is_membership_change_allowed(e)
         ELSE IF e.type = RoomPowerLevelsEvent_TYPE
                 /\ check_power_levels(e).kind = "raise"
         THEN check_power_levels(e)
         ELSE IF e.type = RoomRedactionEvent_TYPE
                 /\ check_redaction(e).kind = "raise"
         THEN check_redaction(e)
         ELSE Returned("True")
    ELSE AuthError(500)

\* The body of the try block of Auth.check.
check_body(e) ==
    IF e.has_room_id
    THEN IF ~e.old_state_events.known THEN Returned("True")
         ELSE IF e.outlier THEN Returned("True")
         ELSE IF e.type = RoomCreateEvent_TYPE THEN Returned("True")
         ELSE IF can_send_event(e).kind = "raise" THEN can_send_event(e)
         ELSE IF e.type = RoomMemberEvent_TYPE
         THEN is_membership_change_allowed(e)
         ELSE IF e.type = RoomPowerLevelsEvent_TYPE
                 /\ check_power_levels(e).kind = "raise"
         THEN check_power_levels(e)
         ELSE IF e.type = RoomRedactionEvent_TYPE
                 /\ check_redaction(e).kind = "raise"
         THEN check_redaction(e)
         ELSE Returned("True")
    ELSE AuthError(500)

\* Auth.check: "except AuthError" catches an AuthError only; it is raised
\* again when raises is set and False is returned otherwise.
check(e, raises) ==
    LET r == check_body(e)
    IN  IF r.kind = "raise" /\ r.exc = "AuthError"
        THEN IF raises THEN r ELSE Returned("False")
        ELSE r

---------------------------------------------------------------------------
(* The events drawn *)

\* A power_levels content.
PowerLevels(has_users, users, users_default, has_events, events, events_default, state_default, ban, kick, redact) ==
    [membership |-> NoMembership,
     has_users |-> has_users, users |-> users,
     users_default |-> users_default,
     has_events |-> has_events, events |-> events,
     events_default |-> events_default, state_default |-> state_default,
     ban |-> ban, kick |-> kick, redact |-> redact]

\* Whether the content has the dict: a dict with an entry is there, a dict
\* with none is either empty or missing.
DictStates(d) == IF \A k \in DOMAIN d : d[k] = None THEN BOOLEAN
                 ELSE {TRUE}

\* The content of a membership event.
MemberContent(membership) == [EmptyContent EXCEPT !.membership = membership]

\* Events of an unknown room state, and events without a room_id.
InitUntrusted ==
    \E has_room_id \in BOOLEAN, outlier \in BOOLEAN, type \in EventTypes,
       user_id \in Users, state_key \in Users,
       membership \in Memberships, known \in BOOLEAN,
       level \in OptLevels :
        /\ ~has_room_id \/ ~known
        /\ event = Event(has_room_id, outlier, type, user_id,
                IF type = RoomMemberEvent_TYPE THEN state_key ELSE "",
                IF type = RoomMemberEvent_TYPE THEN MemberContent(membership)
                ELSE IF type = RoomPowerLevelsEvent_TYPE
                THEN PowerLevels(TRUE, UsersDict(level, None, None), None,
                                 TRUE, EventsDict(type, None), None, None,
                                 None, None, None)
                ELSE EmptyContent,
                IF known THEN EmptyState ELSE UnknownState)

\* Membership events sent to the dispatcher.
InitCheckMember ==
    \E outlier \in BOOLEAN, state_key \in Users,
       membership \in Memberships \cup {Membership_OTHER},
       caller \in Memberships \cup {NoMember},
       target \in {NoMember, Membership_JOIN, Membership_BAN},
       join_rules \in JoinRuleStates, has_pl \in BOOLEAN,
       alice \in OptLevels, users_default \in {None, DefaultLevel},
       state_default \in {None, 0}, kick \in {None, 0},
       by_type \in {None, DefaultLevel} :
        /\ has_pl \/ (/\ alice = None /\ users_default = None
                      /\ state_default = None /\ kick = None
                      /\ by_type = None)
        /\ event = Event(TRUE, outlier, RoomMemberEvent_TYPE, Alice,
                state_key, MemberContent(membership),
                RoomState([u \in Users |-> IF u = Alice THEN caller
                                           ELSE target],
                          join_rules, has_pl,
                          PowerLevels(TRUE, UsersDict(alice, None, None),
                                      users_default, TRUE,
                                      EventsDict(RoomMemberEvent_TYPE,
                                                 by_type),
                                      None, state_default, None, kick,
                                      None)))

\* The power_levels contents of the dispatcher's power_levels events, as
\* room state and as proposed content.
CheckPowerLevelsContents ==
    {PowerLevels(has_users, UsersDict(alice, bob, bad), users_default,
                 has_events, EventsDict(RoomPowerLevelsEvent_TYPE, by_type),
                 None, state_default, None, None, None) :
        alice \in OptLevels, bob \in {None, DefaultLevel},
        bad \in {None, 0},
        users_default \in {None, DefaultLevel - 1},
        by_type \in {None, 0, DefaultLevel},
        state_default \in {None, 0},
        has_users \in BOOLEAN, has_events \in BOOLEAN}

\* Power_levels events sent to the dispatcher; the proposed users dict may
\* hold a value that is no integer.
InitCheckPower ==
    \E outlier \in BOOLEAN, has_pl \in BOOLEAN,
       old \in CheckPowerLevelsContents,
       new \in CheckPowerLevelsContents, bad_value \in BOOLEAN :
        /\ has_pl \/ old = PowerLevels(TRUE, UsersDict(None, None, None),
                                       None, TRUE,
                                       EventsDict(RoomPowerLevelsEvent_TYPE,
                                                  None),
                                       None, None, None, None, None)
        /\ old.has_users \in DictStates(old.users)
        /\ old.has_events \in DictStates(old.events)
        /\ new.has_users \in DictStates(new.users)
        /\ new.has_events \in DictStates(new.events)
        /\ bad_value => new.users[Bob] # None
        /\ event = Event(TRUE, outlier, RoomPowerLevelsEvent_TYPE, Alice, "",
                IF bad_value THEN [new EXCEPT !.users[Bob] = BadLevel]
                ELSE new,
                RoomState([u \in Users |-> Membership_JOIN],
                          NoJoinRulesEvent, has_pl, old))

\* Redactions, messages, join_rules and create events sent to the
\* dispatcher.
InitCheckOther ==
    \E outlier \in BOOLEAN, has_pl \in BOOLEAN,
       type \in EventTypes \ {RoomMemberEvent_TYPE,
                              RoomPowerLevelsEvent_TYPE},
       alice \in OptLevels, users_default \in {None, DefaultLevel},
       by_type \in {None, 0, DefaultLevel},
       events_default \in {None, DefaultLevel - 1},
       state_default \in {None, 0}, redact \in OptLevels :
        /\ has_pl \/ (/\ alice = None /\ users_default = None
                      /\ by_type = None /\ events_default = None
                      /\ state_default = None /\ redact = None)
        /\ event = Event(TRUE, outlier, type, Alice, "", EmptyContent,
                RoomState([u \in Users |-> Membership_JOIN],
                          NoJoinRulesEvent, has_pl,
                          PowerLevels(TRUE, UsersDict(alice, None, None),
                                      users_default, TRUE,
                                      EventsDict(type, by_type),
                                      events_default, state_default, None,
                                      None, redact)))

---------------------------------------------------------------------------
(* The dispatcher: Auth.check over events of every type *)

Init ==
    /\ call = NoCall
    /\ result = NoResult
    /\ \/ InitUntrusted
       \/ InitCheckMember
       \/ InitCheckPower
       \/ InitCheckOther

\* check(event, raises)
Check ==
    /\ call = NoCall
    /\ \E raises \in BOOLEAN :
        /\ call' = [op |-> "check", raises |-> raises,
                    user_id |-> event.user_id]
        /\ result' = check(event, raises)
    /\ UNCHANGED event

Next == Check

Spec == Init /\ [][Next]_vars

---------------------------------------------------------------------------
(* Properties of the dispatcher *)

\* The outcome of check for a denial with the given code: the AuthError in
\* strict mode, False in lenient mode.
Denied(code) == IF call.raises THEN AuthError(code) ELSE Returned("False")

\* check ran on an event that went through the gates.
Gated ==
    /\ call.op = "check"
    /\ event.has_room_id
    /\ event.old_state_events.known
    /\ ~event.outlier

\* C1 as stated: check returns True, in both modes, for every event whose
\* prior state is unknown and for every event flagged outlier, whatever
\* its other fields, the room id included.
C1_TrustedWhateverTheFields ==
    (/\ call.op = "check"
     /\ (~event.old_state_events.known \/ event.outlier))
    => result = Returned("True")

\* C1 amended: check returns True, in both modes, for every event that has
\* a room_id and whose prior state is unknown or that is flagged outlier,
\* whatever its other fields.
C1_TrustFallthrough ==
    (/\ call.op = "check"
     /\ event.has_room_id
     /\ (~event.old_state_events.known \/ event.outlier))
    => result = Returned("True")

\* An outlier of a known state that the membership gate would refuse was
\* allowed by check.
C1_Witness ==
    /\ call.op = "check"
    /\ event.has_room_id
    /\ event.outlier
    /\ event.old_state_events.known
    /\ event.type = RoomMemberEvent_TYPE
    /\ is_membership_change_allowed(event) = AuthError(403)
    /\ result = Returned("True")

\* The failures with a status: 400 validation, 403 policy, 500 structural.
TypedFailure(r) == r.kind = "raise" /\ r.code \in {400, 403, 500}

\* C2: check(event, raises=False) never propagates a typed failure, returns
\* False exactly when check(event, raises=True) raises a typed failure and
\* returns True exactly when the strict call returns True.
C2_SameVerdictInBothModes ==
    (call.op = "check" /\ ~call.raises)
    => /\ ~TypedFailure(result)
       /\ result = Returned("False") <=> TypedFailure(check(event, TRUE))
       /\ result = Returned("True") <=> check(event, TRUE) = Returned("True")

\* A power_levels event whose content is the content of the room's
\* power_levels state went through the gates.
NoOpPowerLevels ==
    /\ Gated
    /\ event.type = RoomPowerLevelsEvent_TYPE
    /\ event.old_state_events.has_power_levels
    /\ event.content = event.old_state_events.power_levels

\* The users dict of the content passes the validation of
\* _check_power_levels.
ValidUsers(content) ==
    \A k \in UserKeys :
        UsersEntry(content, k) # None
        => ParsesAsUserId(k) /\ ParsesAsInt(UsersEntry(content, k))

C5_SelfJoinOnly ==
    (/\ Gated
     /\ event.type = RoomMemberEvent_TYPE
     /\ event.content.membership = Membership_JOIN
     /\ event.user_id # event.state_key)
    => result = Denied(403)

\* A join for another user, in a public room and from a sender whose level
\* passes the send gate, was denied.
C5_Witness ==
    /\ Gated
    /\ event.type = RoomMemberEvent_TYPE
    /\ event.content.membership = Membership_JOIN
    /\ event.user_id # event.state_key
    /\ event.old_state_events.join_rules = JoinRules_PUBLIC
    /\ can_send_event(event) = Returned("True")
    /\ result = Denied(403)

---------------------------------------------------------------------------
(* The validator: Auth._check_power_levels over pairs of contents *)

\* The scalar key that the drawn contents vary besides users_default.
VariedScalars == {"ban", "kick", "redact", "events_default"}

\* Proposals against a prior power_levels state.
InitPowerChange ==
    \E scalar \in VariedScalars,
       old_alice \in OptLevels, new_alice \in OptLevels \cup {BadLevel},
       old_bob \in {None, DefaultLevel}, new_bob \in {None, DefaultLevel},
       new_bad \in {None, 0},
       old_users_default \in {None, DefaultLevel - 1},
       new_users_default \in {None, DefaultLevel},
       old_by_type \in {None, DefaultLevel},
       new_by_type \in {None, 0, DefaultLevel},
       old_scalar \in {None, DefaultLevel},
       new_scalar \in {None, 0, DefaultLevel},
       state_default \in {<<None, None>>, <<DefaultLevel, 0>>} :
        LET old_users == UsersDict(old_alice, old_bob, None)
            new_users == UsersDict(new_alice, new_bob, new_bad)
            old_events == EventsDict(RoomMessageEvent_TYPE, old_by_type)
            new_events == EventsDict(RoomMessageEvent_TYPE, new_by_type)
        IN  /\ scalar = "ban" \/ old_scalar # None \/ new_scalar # None
            /\ \E old_has_users \in DictStates(old_users),
                  old_has_events \in DictStates(old_events),
                  new_has_users \in DictStates(new_users),
                  new_has_events \in DictStates(new_events) :
                event = Event(TRUE, FALSE, RoomPowerLevelsEvent_TYPE,
                    Alice, "",
                    [PowerLevels(new_has_users, new_users,
                                 new_users_default, new_has_events,
                                 new_events, None, state_default[2],
                                 None, None, None)
                     EXCEPT ![scalar] = new_scalar],
                    RoomState([u \in Users |-> Membership_JOIN],
                        NoJoinRulesEvent, TRUE,
                        [PowerLevels(old_has_users, old_users,
                                     old_users_default, old_has_events,
                                     old_events, None, state_default[1],
                                     None, None, None)
                         EXCEPT ![scalar] = old_scalar]))

\* The first power_levels event of a room.
InitPowerFirst ==
    \E new_alice \in OptLevels \cup {BadLevel},
       new_bob \in {None, DefaultLevel}, new_bad \in {None, 0},
       new_users_default \in {None, DefaultLevel},
       new_by_type \in {None, 0, DefaultLevel},
       new_ban \in {None, 0, DefaultLevel},
       new_state_default \in {None, 0} :
        LET new_users == UsersDict(new_alice, new_bob, new_bad)
            new_events == EventsDict(RoomMessageEvent_TYPE, new_by_type)
        IN  \E new_has_users \in DictStates(new_users),
               new_has_events \in DictStates(new_events) :
                event = Event(TRUE, FALSE, RoomPowerLevelsEvent_TYPE,
                    Alice, "",
                    PowerLevels(new_has_users, new_users,
                                new_users_default, new_has_events,
                                new_events, None, new_state_default,
                                new_ban, None, None),
                    RoomState([u \in Users |-> Membership_JOIN],
                              NoJoinRulesEvent, FALSE, EmptyContent))

InitPower ==
    /\ call = NoCall
    /\ result = NoResult
    /\ InitPowerChange \/ InitPowerFirst

\* _check_power_levels(event)
CheckPowerLevels ==
    /\ call = NoCall
    /\ event.type = RoomPowerLevelsEvent_TYPE
    /\ event.old_state_events.known
    /\ call' = [op |-> "check_power_levels", raises |-> TRUE,
                user_id |-> event.user_id]
    /\ result' = check_power_levels(event)
    /\ UNCHANGED event

NextPower == CheckPowerLevels

SpecPower == InitPower /\ [][NextPower]_vars

---------------------------------------------------------------------------
(* Properties of the validator *)

\* The <<old level, new level>> pairs of the entries the validator checks:
\* the five scalars, every key of the old or the new users dict and every
\* key of the old or the new events dict.
CheckedPairs(e) ==
    LET old == e.old_state_events.power_levels
        new == e.content
    IN  {<<old.users_default, new.users_default>>,
         <<old.events_default, new.events_default>>,
         <<old.ban, new.ban>>, <<old.redact, new.redact>>,
         <<old.kick, new.kick>>}
        \cup {<<old.users[k], new.users[k]>> : k \in UserKeys}
        \cup {<<old.events[t], new.events[t]>> : t \in EventTypes}

\* The entry changed, or is on one side only, and its old or its new value
\* is above the level.
ChangedAbove(pair, level) ==
    /\ pair[1] # pair[2]
    /\ \/ pair[1] # None /\ pair[1] > level
       \/ pair[2] # None /\ pair[2] > level

\* The validator ran on a valid proposal against a prior power_levels
\* state.
ValidatorCompared ==
    /\ call.op = "check_power_levels"
    /\ event.old_state_events.has_power_levels
    /\ ValidUsers(event.content)

\* The outcome stated for the validator: 403 exactly when some checked
\* entry that changed, or is on one side only, has an old or a new value
\* above the level _get_power_level_from_event_state gives the sender,
\* and allowed otherwise.
AuthorityBound ==
    LET level == get_power_level_from_event_state(event, event.user_id)
        above == \E pair \in CheckedPairs(event) : ChangedAbove(pair, level)
    IN  /\ result = AuthError(403) <=> above
        /\ ~above => result = Returned("None")

\* C4: with a prior power_levels state and a valid proposed users dict,
\* the validator denies with 403 exactly when some changed checked entry
\* has an old or a new value above the sender's level, and allows when
\* every changed value is at most that level.
C4_MonotonicAuthorityBound ==
    ValidatorCompared => AuthorityBound

\* The same bound where the prior content has its users and events dicts
\* and the proposed content its events dict: there it holds.
AuthorityBoundWithDicts ==
    (/\ ValidatorCompared
     /\ event.old_state_events.power_levels.has_users
     /\ event.old_state_events.power_levels.has_events
     /\ event.content.has_events)
    => AuthorityBound

\* The event with other values of state_default in the prior and in the
\* proposed content.
WithStateDefault(e, old_level, new_level) ==
    [e EXCEPT !.old_state_events.power_levels.state_default = old_level,
              !.content.state_default = new_level]

\* The proposed content is the prior content but for state_default.
OnlyStateDefaultProposed ==
    /\ event.old_state_events.has_power_levels
    /\ event.content
          = [event.old_state_events.power_levels
             EXCEPT !.state_default = event.content.state_default]

\* C10: the validator's outcome is the same for every value of
\* state_default in the prior and in the proposed content, and a proposal
\* that changes state_default alone is never denied.
C10_StateDefaultIgnored ==
    call.op = "check_power_levels"
    => /\ \A old_level \in OptLevels, new_level \in OptLevels :
            check_power_levels(WithStateDefault(event, old_level, new_level))
               = result
       /\ OnlyStateDefaultProposed => result # AuthError(403)
       /\ (/\ OnlyStateDefaultProposed
           /\ event.content.has_users
           /\ event.content.has_events)
          => result = Returned("None")

\* A sender of level 0 changed state_default alone, from 50 to 0, and was
\* not denied.
C10_Witness ==
    /\ call.op = "check_power_levels"
    /\ OnlyStateDefaultProposed
    /\ event.old_state_events.power_levels.state_default = DefaultLevel
    /\ event.content.state_default = 0
    /\ get_power_level_from_event_state(event, event.user_id) = 0
    /\ result = Returned("None")

---------------------------------------------------------------------------
(* The membership gate: Auth.is_membership_change_allowed *)

InitMember ==
    /\ call = NoCall
    /\ result = NoResult
    /\ \E state_key \in Users,
          membership \in Memberships \cup {Membership_OTHER},
          caller \in Memberships \cup {NoMember},
          target \in Memberships \cup {NoMember},
          join_rules \in JoinRuleStates, has_pl \in BOOLEAN,
          alice \in OptLevels, users_default \in OptLevels,
          kick \in OptLevels, ban \in OptLevels :
        /\ has_pl \/ (/\ alice = None /\ users_default = None
                      /\ kick = None /\ ban = None)
        /\ event = Event(TRUE, FALSE, RoomMemberEvent_TYPE, Alice,
                state_key, MemberContent(membership),
                RoomState([u \in Users |-> IF u = Alice THEN caller
                                           ELSE target],
                          join_rules, has_pl,
                          PowerLevels(TRUE, UsersDict(alice, None, None),
                                      users_default, TRUE,
                                      EventsDict(RoomMemberEvent_TYPE, None),
                                      None, None, ban, kick, None)))

\* is_membership_change_allowed(event)
IsMembershipChangeAllowed ==
    /\ call = NoCall
    /\ event.type = RoomMemberEvent_TYPE
    /\ event.old_state_events.known
    /\ call' = [op |-> "is_membership_change_allowed", raises |-> TRUE,
                user_id |-> event.user_id]
    /\ result' = is_membership_change_allowed(event)
    /\ UNCHANGED event

NextMember == IsMembershipChangeAllowed

SpecMember == InitMember /\ [][NextMember]_vars

\* A level for a comparison: no level information counts as 0.
LevelOrZero(level) == IF level = None THEN 0 ELSE level

\* A threshold of the room: the level set in the prior power_levels state,
\* 50 when that level is unset or there is no power_levels state.
Threshold(e, level) ==
    IF e.old_state_events.has_power_levels /\ level # None
    THEN level
    ELSE DefaultLevel

\* The outcome the table of membership transitions gives.
TableOutcome(e) ==
    LET st == e.old_state_events
        caller_joined == st.member[e.user_id] = Membership_JOIN
        target_joined == st.member[e.state_key] = Membership_JOIN
        rule == IF st.join_rules \in {NoJoinRulesEvent, NoJoinRuleField}
                THEN JoinRules_INVITE
                ELSE st.join_rules
        level == LevelOrZero(
                    get_power_level_from_event_state(e, e.user_id))
        requested == e.content.membership
        allowed ==
            \/ /\ requested = Membership_INVITE
               /\ caller_joined /\ ~target_joined
            \/ /\ requested = Membership_JOIN
               /\ e.user_id = e.state_key
               /\ \/ rule = JoinRules_PUBLIC
                  \/ rule = JoinRules_INVITE /\ caller_joined
            \/ /\ requested = Membership_LEAVE
               /\ caller_joined
               /\ e.state_key # e.user_id
                  => level >= Threshold(e, st.power_levels.kick)
            \/ /\ requested = Membership_BAN
               /\ level >= Threshold(e, st.power_levels.ban)
    IN  IF requested \notin Memberships THEN AuthError(500)
        ELSE IF allowed THEN Returned("True")
        ELSE AuthError(403)

\* C6: for every caller and target membership, requested membership, join
\* rule, caller level and kick and ban threshold (0 and unset included),
\* is_membership_change_allowed gives the outcome of the table.
C6_MembershipTable ==
    call.op = "is_membership_change_allowed"
    => result = TableOutcome(event)

---------------------------------------------------------------------------
(* The send gate, the redaction gate and the level lookup *)

InitGates ==
    /\ call = NoCall
    /\ result = NoResult
    /\ \E type \in {RoomMessageEvent_TYPE, RoomRedactionEvent_TYPE,
                    RoomJoinRulesEvent_TYPE},
          has_pl \in BOOLEAN,
          alice \in OptLevels, bob \in {None, 0},
          users_default \in OptLevels, by_type \in OptLevels,
          events_default \in OptLevels, state_default \in OptLevels,
          redact \in OptLevels :
        /\ has_pl \/ (/\ alice = None /\ bob = None /\ users_default = None
                      /\ by_type = None /\ events_default = None
                      /\ state_default = None /\ redact = None)
        /\ \E has_users \in DictStates(UsersDict(alice, bob, None)),
              has_events \in DictStates(EventsDict(type, by_type)) :
            event = Event(TRUE, FALSE, type, Alice, "", EmptyContent,
                RoomState([u \in Users |-> Membership_JOIN],
                    NoJoinRulesEvent, has_pl,
                    PowerLevels(has_users, UsersDict(alice, bob, None),
                                users_default, has_events,
                                EventsDict(type, by_type), events_default,
                                state_default, None, None, redact)))

\* _can_send_event(event)
CanSendEvent ==
    /\ call = NoCall
    /\ event.old_state_events.known
    /\ call' = [op |-> "can_send_event", raises |-> TRUE,
                user_id |-> event.user_id]
    /\ result' = can_send_event(event)
    /\ UNCHANGED event

\* _check_redaction(event)
CheckRedaction ==
    /\ call = NoCall
    /\ event.type = RoomRedactionEvent_TYPE
    /\ event.old_state_events.known
    /\ call' = [op |-> "check_redaction", raises |-> TRUE,
                user_id |-> event.user_id]
    /\ result' = check_redaction(event)
    /\ UNCHANGED event

\* _get_power_level_from_event_state(event, user_id)
GetPowerLevelFromEventState ==
    /\ call = NoCall
    /\ event.old_state_events.known
    /\ \E user_id \in Users :
        /\ call' = [op |-> "get_power_level_from_event_state",
                    raises |-> TRUE, user_id |-> user_id]
        /\ result' = ReturnedLevel(
                        get_power_level_from_event_state(event, user_id))
    /\ UNCHANGED event

NextGates ==
    \/ CanSendEvent
    \/ CheckRedaction
    \/ GetPowerLevelFromEventState

SpecGates == InitGates /\ [][NextGates]_vars

\* The required send level as stated: events[type] whenever set, else
\* state_default (50) for a state event and events_default (0) for
\* another, and 0 without a power_levels state.
RequiredSendLevel(e) ==
    LET st == e.old_state_events
        by_type == EventsEntry(st.power_levels, e.type)
    IN  IF ~st.has_power_levels THEN 0
        ELSE IF by_type # None THEN by_type
        ELSE IF e.has_state_key
        THEN Get(st.power_levels.state_default, DefaultStateLevel)
        ELSE Get(st.power_levels.events_default, DefaultEventsLevel)

\* C7: _can_send_event denies with 403 exactly when the sender's level is
\* below the required send level, the level events[type] whenever that is
\* set, 0 included.
C7_RequiredSendLevel ==
    call.op = "can_send_event"
    => LET level == LevelOrZero(
                       get_power_level_from_event_state(event,
                                                        event.user_id))
       IN  /\ result = AuthError(403) <=> level < RequiredSendLevel(event)
           /\ result # AuthError(403) => result = Returned("True")

\* C8: _check_redaction denies with 403 exactly when the sender's level (0
\* without level information) is below the redact threshold, which is 50
\* when the power_levels state has no redact and when there is no
\* power_levels state.
C8_RedactionGate ==
    call.op = "check_redaction"
    => LET level == LevelOrZero(
                       get_power_level_from_event_state(event,
                                                        event.user_id))
           threshold == Threshold(event,
                            event.old_state_events.power_levels.redact)
       IN  result = AuthError(403) <=> level < threshold

\* C9: with a power_levels state, the level of a user is users[user_id]
\* whenever user_id is a key of users, 0 included, and users_default
\* (default 0) only when it is not.
C9_EffectiveLevel ==
    (/\ call.op = "get_power_level_from_event_state"
     /\ event.old_state_events.has_power_levels)
    => LET content == event.old_state_events.power_levels
           entry == UsersEntry(content, call.user_id)
       IN  result.level = IF entry # None THEN entry
                          ELSE Get(content.users_default, DefaultUsersLevel)

====
